---- MODULE Spec2Model ----
(***************************************************************************)
(* Model of MultipartParser (src/http_parser/multipart_parser.h): the      *)
(* streaming multipart/form-data parser.  Bytes are their ASCII codes, a   *)
(* buffer is a sequence of bytes (C offset i is element i+1), the parser   *)
(* object is a record with the fields of the class, and feed() is the      *)
(* operator feed, one evaluation per call.                                 *)
(***************************************************************************)
EXTENDS Integers, Sequences, FiniteSets, TLC

\* ------------------------------------------------------------ constants
CR == 13
LF == 10
SPACE == 32
HYPHEN == 45
COLON == 58
\* (size_t) -1: sizes are kept as integers, -1 stands for SIZE_MAX (i-- at 0
\* followed by the loop's i++ gives 0 again, as with the unsigned wrap).
UNMARKED == -1
PART_BOUNDARY == 1
LAST_BOUNDARY == 2
\* The content of a char of `new char[n]` that was never written.
Indeterminate == 256

ErrUninit == "Parser uninitialized."
ErrNone == "No error."
ErrExpectedCR == "Malformed. Expected CR after boundary."
ErrExpectedLF == "Malformed. Expected LF after boundary CR."
ErrDifferent == "Malformed. Found different boundary data than the given one."
ErrFirstChar == "Malformed first header name character."
ErrHeaderName == "Malformed header name."
ErrValueLF == "Malformed header value: LF expected after CR"
ErrEndingLF == "Malformed header ending: LF expected after CR"
ErrOverflow == "Parser bug: index overflows lookbehind buffer. Please send bug report with input file attached."

\* ------------------------------------------------------------ helpers
\* x itself.  (TLC computes the value here, once, instead of carrying the
\* expression along.)
Value(x) == CHOOSE v \in {x} : TRUE

HasFlag(flags, f) == (flags \div f) % 2 = 1
SetFlag(flags, f) == IF HasFlag(flags, f) THEN flags ELSE flags + f
ClearFlag(flags, f) == IF HasFlag(flags, f) THEN flags - f ELSE flags

\* char is signed: c | 0x20 of a byte >= 128 stays negative.
lower(c) ==
    LET s == IF (c \div 32) % 2 = 1 THEN c ELSE c + 32
    IN  IF s >= 128 THEN s - 256 ELSE s

\* The bytes buffer[start .. end-1]; a position outside the buffer reads an
\* indeterminate byte.
Slice(buf, start, end) ==
    [k \in 1..(IF end > start THEN end - start ELSE 0) |->
        IF start + k >= 1 /\ start + k <= Len(buf) THEN buf[start + k] ELSE Indeterminate]

\* One dispatched callback.  src names the buffer handed to the handler.
Event(cb, src, start, end, data, fresh) ==
    [cb |-> cb, src |-> src, start |-> start, end |-> end, data |-> data, fresh |-> fresh]

\* As callback(), without the test that suppresses an empty slice.
callbackAlways(cb, src, data, start, end, allowEmpty, fresh) ==
    <<Event(cb, src, start, end, data, fresh)>>

\* callback(): the list of handler invocations it makes (none or one).
callback(cb, src, data, start, end, allowEmpty, fresh) ==
    IF start # UNMARKED /\ start = end /\ ~allowEmpty
    THEN <<>>
    ELSE <<Event(cb, src, start, end, data, fresh)>>

\* callback(cb) with the default arguments: no buffer, no offsets.
notify(cb) == callback(cb, "null", <<>>, UNMARKED, UNMARKED, FALSE, TRUE)

\* As dataCallback, but the end-of-call flush leaves the mark where it was.
dataCallbackKeepMark(cb, mark, buf, i, clear, allowEmpty) ==
    IF mark = UNMARKED
    THEN [ev |-> <<>>, mark |-> mark]
    ELSE IF ~clear
         THEN [ev |-> callback(cb, "input", Slice(buf, mark, Len(buf)), mark, Len(buf), allowEmpty, TRUE),
               mark |-> mark]
         ELSE [ev |-> callback(cb, "input", Slice(buf, mark, i), mark, i, allowEmpty, TRUE),
               mark |-> UNMARKED]

\* As dataCallback, but the end-of-call flush leaves the mark at the end of
\* the buffer instead of at 0.
dataCallbackMarkAtEnd(cb, mark, buf, i, clear, allowEmpty) ==
    IF mark = UNMARKED
    THEN [ev |-> <<>>, mark |-> mark]
    ELSE IF ~clear
         THEN [ev |-> callback(cb, "input", Slice(buf, mark, Len(buf)), mark, Len(buf), allowEmpty, TRUE),
               mark |-> Len(buf)]
         ELSE [ev |-> callback(cb, "input", Slice(buf, mark, i), mark, i, allowEmpty, TRUE),
               mark |-> UNMARKED]

\* dataCallback(): the invocations and the new value of the mark.
dataCallback(cb, mark, buf, i, clear, allowEmpty) ==
    IF mark = UNMARKED
    THEN [ev |-> <<>>, mark |-> mark]
    ELSE IF ~clear
         THEN [ev |-> callback(cb, "input", Slice(buf, mark, Len(buf)), mark, Len(buf), allowEmpty, TRUE),
               mark |-> 0]
         ELSE [ev |-> callback(cb, "input", Slice(buf, mark, i), mark, i, allowEmpty, TRUE),
               mark |-> UNMARKED]

\* As setError, without the assignment of errorReason.
setErrorKeepReason(p, message) == [p EXCEPT !.state = "ERROR"]

setError(p, message) == [p EXCEPT !.state = "ERROR", !.errorReason = message]

\* ------------------------------------------------------------ configuration
indexBoundary(boundary) == {boundary[k] : k \in 1..Len(boundary)}

\* As reset(), but leaving the parser ready for input (START, "No error.").
resetToStart(p) ==
    [state |-> "START", boundary |-> <<>>, boundarySize |-> 0, boundaryIndex |-> {},
     lookbehind |-> <<>>, lookbehindSize |-> 0, flags |-> 0, index |-> 0,
     headerFieldMark |-> UNMARKED, headerValueMark |-> UNMARKED, partDataMark |-> UNMARKED,
     errorReason |-> ErrNone, written |-> {}]

\* reset().  written is bookkeeping of the model: the lookbehind positions
\* written since the current boundary candidate began.
reset(p) ==
    [state |-> "ERROR", boundary |-> <<>>, boundarySize |-> 0, boundaryIndex |-> {},
     lookbehind |-> <<>>, lookbehindSize |-> 0, flags |-> 0, index |-> 0,
     headerFieldMark |-> UNMARKED, headerValueMark |-> UNMARKED, partDataMark |-> UNMARKED,
     errorReason |-> ErrUninit, written |-> {}]

\* As setBoundary, without the call of reset().
setBoundaryNoReset(p, token) ==
    LET b == <<CR, LF, HYPHEN, HYPHEN>> \o token
    IN  [p EXCEPT !.boundary = b, !.boundarySize = Len(b), !.boundaryIndex = indexBoundary(b),
                  !.lookbehind = [k \in 1..(Len(b) + 8) |-> Indeterminate],
                  !.lookbehindSize = Len(b) + 8, !.state = "START", !.errorReason = ErrNone,
                  !.written = {}]

\* setBoundary(boundary).
setBoundary(p, token) ==
    LET r == reset(p)
        b == <<CR, LF, HYPHEN, HYPHEN>> \o token
    IN  [r EXCEPT !.boundary = b, !.boundarySize = Len(b), !.boundaryIndex = indexBoundary(b),
                  !.lookbehind = [k \in 1..(Len(b) + 8) |-> Indeterminate],
                  !.lookbehindSize = Len(b) + 8, !.state = "START", !.errorReason = ErrNone]

succeeded(p) == p.state = "END"
hasError(p) == p.state = "ERROR"
stopped(p) == p.state = "ERROR" \/ p.state = "END"
getErrorMessage(p) == p.errorReason

\* ------------------------------------------------------------ std::string
\* A string is the sequence of its chars; C offset k is element k + 1.
\* std::string::npos is the largest size_t; converted to int it is -1, and the
\* sums the code forms with it (npos + 2, npos + 9) wrap to 1 and 8, as -1
\* does.
NPOS == -1
SEMICOLON == 59
EQUALS == 61
QUOTE == 34

\* s.find(pat, from): the least offset >= from at which pat occurs, or npos.
find(s, pat, from) ==
    LET hits == {k \in from..(Len(s) - Len(pat)) : SubSeq(s, k + 1, k + Len(pat)) = pat}
    IN  IF hits = {} THEN NPOS ELSE CHOOSE k \in hits : \A j \in hits : k <= j

\* s.substr(pos, n), the arguments converted to size_t (a negative int is a
\* huge size_t): throws std::out_of_range when pos > size, else the chars from
\* pos on, n at most.
substr(s, pos, n) ==
    IF pos < 0 \/ pos > Len(s)
    THEN [thrown |-> TRUE, str |-> <<>>]
    ELSE [thrown |-> FALSE,
          str |-> SubSeq(s, pos + 1, IF n < 0 \/ pos + n > Len(s) THEN Len(s) ELSE pos + n)]

MultipartSlash == <<109, 117, 108, 116, 105, 112, 97, 114, 116, 47>>     \* "multipart/"
BoundaryEquals == <<98, 111, 117, 110, 100, 97, 114, 121, 61>>           \* "boundary="
NameKey == <<110, 97, 109, 101>>                                         \* "name"
FilenameKey == <<102, 105, 108, 101, 110, 97, 109, 101>>                 \* "filename"

\* As setBoundaryKeyValue, without the test for "multipart/".
setBoundaryKeyValueAlways(p, val) ==
    LET pos == find(val, BoundaryEquals, 0) + 9
        boundary == substr(val, pos, NPOS)
    IN  IF boundary.thrown
        THEN [p |-> p, ret |-> 1, thrown |-> TRUE]
        ELSE [p |-> setBoundary(p, boundary.str), ret |-> 0, thrown |-> FALSE]

\* setBoundary(key, value), lines 287-299: the parser it leaves, the value it
\* returns, and whether it threw.
setBoundaryKeyValue(p, val) ==
    IF find(val, MultipartSlash, 0) # NPOS
    THEN LET pos == find(val, BoundaryEquals, 0) + 9
             boundary == substr(val, pos, NPOS)
         IN  IF boundary.thrown
             THEN [p |-> p, ret |-> 1, thrown |-> TRUE]
             ELSE [p |-> setBoundary(p, boundary.str), ret |-> 0, thrown |-> FALSE]
    ELSE [p |-> p, ret |-> 1, thrown |-> FALSE]

\* One pass of the while loop of getFileInfos (lines 305-320) on the running
\* state st: _temp, the three out-parameters, ret, and whether the function
\* has left the loop (done) or thrown.
fileInfosPass(st) ==
    IF find(st.temp, <<SEMICOLON>>, 0) = 0
    THEN [st EXCEPT !.done = TRUE]
    ELSE LET pos1 == find(st.temp, <<EQUALS>>, 0)
             name == substr(st.temp, 0, pos1).str
             pos2 == find(st.temp, <<QUOTE>>, 0)
             pos3 == find(st.temp, <<QUOTE>>, pos2 + 1)
             nameVal == substr(st.temp, pos2 + 1, pos3 - pos2 - 1)
             rest == substr(st.temp, find(st.temp, <<SEMICOLON>>, 0) + 2, NPOS)
         IN  IF nameVal.thrown
             THEN [st EXCEPT !.done = TRUE, !.thrown = TRUE]
             ELSE IF name = NameKey
             THEN IF rest.thrown
                  THEN [st EXCEPT !.item.name = nameVal.str, !.done = TRUE, !.thrown = TRUE]
                  ELSE [st EXCEPT !.item.name = nameVal.str, !.temp = rest.str]
             ELSE IF name = FilenameKey
             THEN [st EXCEPT !.item.filename = nameVal.str, !.item.isFile = TRUE,
                             !.ret = 0, !.done = TRUE]
             ELSE IF rest.thrown
             THEN [st EXCEPT !.done = TRUE, !.thrown = TRUE]
             ELSE [st EXCEPT !.temp = rest.str]

\* The while loop: every pass that does not leave it shortens _temp.
RECURSIVE fileInfosLoop(_)
fileInfosLoop(st) == IF st.done THEN st ELSE fileInfosLoop(Value(fileInfosPass(st)))

\* getFileInfos(key, value, itemName, itemFilename, itemIsFile), lines 301-322.
getFileInfos(val, it) ==
    LET first == substr(val, find(val, <<SEMICOLON>>, 0) + 2, NPOS)
    IN  IF first.thrown
        THEN [temp |-> <<>>, item |-> it, ret |-> 1, done |-> TRUE, thrown |-> TRUE]
        ELSE fileInfosLoop([temp |-> first.str, item |-> it, ret |-> 1, done |-> FALSE,
                            thrown |-> FALSE])

\* ------------------------------------------------------------ feed(): one byte
\* What one pass of the loop body leaves: the parser, the handler invocations,
\* the loop index, and whether feed() returned (with ret) inside the pass.
Continue(p, ev, i) == [p |-> p, ev |-> ev, i |-> i, done |-> FALSE, ret |-> 0]
Return(p, ev, i, ret) == [p |-> p, ev |-> ev, i |-> i, done |-> TRUE, ret |-> ret]

\* START_BOUNDARY at index == boundarySize - 2 (lines 344-350).
expectCR(p, c, i) ==
    IF c # CR
    THEN Return(setError(p, ErrExpectedCR), <<>>, i, i)
    ELSE Continue([p EXCEPT !.index = p.index + 1], <<>>, i)

\* As expectLF, but any byte is taken for the LF.
expectAnyByte(p, c, i) ==
    Continue([p EXCEPT !.index = 0, !.state = "HEADER_FIELD_START"], notify("onPartBegin"), i)

\* START_BOUNDARY at index - 1 == boundarySize - 2 (lines 351-360).
expectLF(p, c, i) ==
    IF c # LF
    THEN Return(setError(p, ErrExpectedLF), <<>>, i, i)
    ELSE Continue([p EXCEPT !.index = 0, !.state = "HEADER_FIELD_START"],
                  notify("onPartBegin"), i)

\* As expectToken, with break in place of return i.
expectTokenBreak(p, c, i) ==
    IF c # p.boundary[p.index + 3]
    THEN Continue(setError(p, ErrDifferent), <<>>, i)
    ELSE Continue([p EXCEPT !.index = p.index + 1], <<>>, i)

\* START_BOUNDARY otherwise (lines 361-366): the byte of "--" token.
expectToken(p, c, i) ==
    IF c # p.boundary[p.index + 3]
    THEN Return(setError(p, ErrDifferent), <<>>, i, i)
    ELSE Continue([p EXCEPT !.index = p.index + 1], <<>>, i)

\* case START (falls through) and case START_BOUNDARY.
StepStartBoundary(p0, buf, i) ==
    LET c == buf[i + 1]
        p == IF p0.state = "START"
             THEN [p0 EXCEPT !.index = 0, !.state = "START_BOUNDARY"]
             ELSE p0
    IN  IF p.index = p.boundarySize - 2 THEN expectCR(p, c, i)
        ELSE IF p.index - 1 = p.boundarySize - 2 THEN expectLF(p, c, i)
        ELSE expectToken(p, c, i)

\* As StepHeaderField, with the upper end of the letter range off by one.
StepHeaderFieldWideRange(p0, buf, i) ==
    LET c == buf[i + 1]
        p == IF p0.state = "HEADER_FIELD_START"
             THEN [p0 EXCEPT !.state = "HEADER_FIELD", !.headerFieldMark = i, !.index = 0]
             ELSE p0
        q == [p EXCEPT !.index = p.index + 1]
    IN  IF c = CR
        THEN Continue([p EXCEPT !.headerFieldMark = UNMARKED, !.state = "HEADERS_ALMOST_DONE"],
                      <<>>, i)
        ELSE IF c = HYPHEN
        THEN Continue(q, <<>>, i)
        ELSE IF c = COLON
        THEN IF q.index = 1
             THEN Return(setError(q, ErrFirstChar), <<>>, i, i)
             ELSE LET d == dataCallback("onHeaderField", q.headerFieldMark, buf, i, TRUE, FALSE)
                  IN  Continue([q EXCEPT !.headerFieldMark = d.mark,
                                         !.state = "HEADER_VALUE_START"], d.ev, i)
        ELSE IF lower(c) < 97 \/ lower(c) > 123
        THEN Return(setError(q, ErrHeaderName), <<>>, i, i)
        ELSE Continue(q, <<>>, i)

\* case HEADER_FIELD_START (falls through) and case HEADER_FIELD.
StepHeaderField(p0, buf, i) ==
    LET c == buf[i + 1]
        p == IF p0.state = "HEADER_FIELD_START"
             THEN [p0 EXCEPT !.state = "HEADER_FIELD", !.headerFieldMark = i, !.index = 0]
             ELSE p0
        q == [p EXCEPT !.index = p.index + 1]
    IN  IF c = CR
        THEN Continue([p EXCEPT !.headerFieldMark = UNMARKED, !.state = "HEADERS_ALMOST_DONE"],
                      <<>>, i)
        ELSE IF c = HYPHEN
        THEN Continue(q, <<>>, i)
        ELSE IF c = COLON
        THEN IF q.index = 1
             THEN Return(setError(q, ErrFirstChar), <<>>, i, i)
             ELSE LET d == dataCallback("onHeaderField", q.headerFieldMark, buf, i, TRUE, FALSE)
                  IN  Continue([q EXCEPT !.headerFieldMark = d.mark,
                                         !.state = "HEADER_VALUE_START"], d.ev, i)
        ELSE IF lower(c) < 97 \/ lower(c) > 122
        THEN Return(setError(q, ErrHeaderName), <<>>, i, i)
        ELSE Continue(q, <<>>, i)

\* As StepHeaderValue, but a SPACE after the colon begins the value.
StepHeaderValueKeepSpace(p0, buf, i) ==
    LET c == buf[i + 1]
        p == IF p0.state = "HEADER_VALUE_START"
             THEN [p0 EXCEPT !.headerValueMark = i, !.state = "HEADER_VALUE"]
             ELSE p0
    IN  IF c = CR
        THEN LET d == dataCallback("onHeaderValue", p.headerValueMark, buf, i, TRUE, TRUE)
             IN  Continue([p EXCEPT !.headerValueMark = d.mark,
                                    !.state = "HEADER_VALUE_ALMOST_DONE"],
                          d.ev \o notify("onHeaderEnd"), i)
        ELSE Continue(p, <<>>, i)

\* As StepHeaderValue, but one SPACE after the colon is skipped and the value
\* begins at the byte after it.
StepHeaderValueOneSpace(p0, buf, i) ==
    LET c == buf[i + 1]
        p == IF p0.state = "HEADER_VALUE_START"
             THEN [p0 EXCEPT !.headerValueMark = i, !.state = "HEADER_VALUE"]
             ELSE p0
    IN  IF p0.state = "HEADER_VALUE_START" /\ c = SPACE
        THEN Continue([p0 EXCEPT !.headerValueMark = i + 1, !.state = "HEADER_VALUE"], <<>>, i)
        ELSE IF c = CR
        THEN LET d == dataCallback("onHeaderValue", p.headerValueMark, buf, i, TRUE, TRUE)
             IN  Continue([p EXCEPT !.headerValueMark = d.mark,
                                    !.state = "HEADER_VALUE_ALMOST_DONE"],
                          d.ev \o notify("onHeaderEnd"), i)
        ELSE Continue(p, <<>>, i)

\* case HEADER_VALUE_START (falls through) and case HEADER_VALUE.
StepHeaderValue(p0, buf, i) ==
    LET c == buf[i + 1]
        p == IF p0.state = "HEADER_VALUE_START"
             THEN [p0 EXCEPT !.headerValueMark = i, !.state = "HEADER_VALUE"]
             ELSE p0
    IN  IF p0.state = "HEADER_VALUE_START" /\ c = SPACE
        THEN Continue(p0, <<>>, i)
        ELSE IF c = CR
        THEN LET d == dataCallback("onHeaderValue", p.headerValueMark, buf, i, TRUE, TRUE)
             IN  Continue([p EXCEPT !.headerValueMark = d.mark,
                                    !.state = "HEADER_VALUE_ALMOST_DONE"],
                          d.ev \o notify("onHeaderEnd"), i)
        ELSE Continue(p, <<>>, i)

\* case HEADER_VALUE_ALMOST_DONE.
StepHeaderValueAlmostDone(p, buf, i) ==
    IF buf[i + 1] # LF
    THEN Return(setError(p, ErrValueLF), <<>>, i, i)
    ELSE Continue([p EXCEPT !.state = "HEADER_FIELD_START"], <<>>, i)

\* case HEADERS_ALMOST_DONE.
StepHeadersAlmostDone(p, buf, i) ==
    IF buf[i + 1] # LF
    THEN Return(setError(p, ErrEndingLF), <<>>, i, i)
    ELSE Continue([p EXCEPT !.state = "PART_DATA_START"], notify("onHeadersEnd"), i)

\* ------------------------------------------------------------ processPartData()
\* As skip, but looking at the first byte of each stride instead of the last.
RECURSIVE skipByFirst(_, _, _)
skipByFirst(p, buf, i) ==
    IF i + p.boundarySize <= Len(buf) /\ buf[i + 1] \notin p.boundaryIndex
    THEN skipByFirst(p, buf, i + p.boundarySize)
    ELSE i

\* The skip loop of lines 132-138: the offset it leaves in i.
RECURSIVE skip(_, _, _)
skip(p, buf, i) ==
    IF i + p.boundarySize <= Len(buf) /\ buf[i + p.boundarySize] \notin p.boundaryIndex
    THEN skip(p, buf, i + p.boundarySize)
    ELSE i

\* Lines 145-202: the if / else-if chain on index, branch by branch.  Each
\* branch leaves the parser, the handler invocations, and ret: whether the
\* function returned inside the branch (lines 174 and 200).
Stay(p) == [p |-> p, ev |-> <<>>, ret |-> FALSE]

\* index < boundarySize (lines 145-153).
matchPrefix(p, buf, i, c) ==
    IF p.boundary[p.index + 1] = c
    THEN LET d == IF p.index = 0
                  THEN dataCallback("onPartData", p.partDataMark, buf, i, TRUE, FALSE)
                  ELSE [ev |-> <<>>, mark |-> p.partDataMark]
         IN  [p |-> [p EXCEPT !.index = p.index + 1, !.partDataMark = d.mark],
              ev |-> d.ev, ret |-> FALSE]
    ELSE Stay([p EXCEPT !.index = 0])

\* As matchAfterBoundary, but the CR does not set PART_BOUNDARY.
matchAfterBoundaryNoFlag(p, c) ==
    IF c = CR
    THEN Stay([p EXCEPT !.index = p.index + 1])
    ELSE IF c = HYPHEN
    THEN Stay([p EXCEPT !.index = p.index + 1, !.flags = SetFlag(p.flags, LAST_BOUNDARY)])
    ELSE Stay([p EXCEPT !.index = 0])

\* index == boundarySize (lines 154-164).
matchAfterBoundary(p, c) ==
    IF c = CR
    THEN Stay([p EXCEPT !.index = p.index + 1, !.flags = SetFlag(p.flags, PART_BOUNDARY)])
    ELSE IF c = HYPHEN
    THEN Stay([p EXCEPT !.index = p.index + 1, !.flags = SetFlag(p.flags, LAST_BOUNDARY)])
    ELSE Stay([p EXCEPT !.index = 0])

\* As matchDelimiterEnd, but the second hyphen only advances the index and
\* leaves the END transition to the CR LF branches (lines 188-202).
matchDelimiterEndLate(p, c) ==
    IF HasFlag(p.flags, PART_BOUNDARY)
    THEN IF c = LF
         THEN [p |-> [p EXCEPT !.index = 0, !.flags = ClearFlag(p.flags, PART_BOUNDARY),
                               !.state = "HEADER_FIELD_START"],
               ev |-> notify("onPartEnd") \o notify("onPartBegin"), ret |-> TRUE]
         ELSE Stay([p EXCEPT !.index = 0])
    ELSE IF HasFlag(p.flags, LAST_BOUNDARY)
    THEN IF c = HYPHEN
         THEN Stay([p EXCEPT !.index = p.index + 1])
         ELSE Stay([p EXCEPT !.index = 0])
    ELSE Stay([p EXCEPT !.index = 0])

\* index - 1 == boundarySize (lines 165-187).
matchDelimiterEnd(p, c) ==
    IF HasFlag(p.flags, PART_BOUNDARY)
    THEN IF c = LF
         THEN [p |-> [p EXCEPT !.index = 0, !.flags = ClearFlag(p.flags, PART_BOUNDARY),
                               !.state = "HEADER_FIELD_START"],
               ev |-> notify("onPartEnd") \o notify("onPartBegin"), ret |-> TRUE]
         ELSE Stay([p EXCEPT !.index = 0])
    ELSE IF HasFlag(p.flags, LAST_BOUNDARY)
    THEN IF c = HYPHEN
         THEN [p |-> [p EXCEPT !.state = "END"],
               ev |-> notify("onPartEnd") \o notify("onEnd"), ret |-> FALSE]
         ELSE Stay([p EXCEPT !.index = 0])
    ELSE Stay([p EXCEPT !.index = 0])

\* index - 2 == boundarySize (lines 188-193).
matchTrailingCR(p, c) ==
    IF c = CR THEN Stay([p EXCEPT !.index = p.index + 1]) ELSE Stay([p EXCEPT !.index = 0])

\* index - boundarySize == 3 (lines 194-202).
matchTrailingLF(p, c) ==
    IF c = LF
    THEN [p |-> [p EXCEPT !.index = 0, !.state = "END"],
          ev |-> notify("onPartEnd") \o notify("onEnd"), ret |-> TRUE]
    ELSE Stay([p EXCEPT !.index = 0])

matchBoundary(p, buf, i, c) ==
    IF p.index < p.boundarySize THEN matchPrefix(p, buf, i, c)
    ELSE IF p.index = p.boundarySize THEN matchAfterBoundary(p, c)
    ELSE IF p.index - 1 = p.boundarySize THEN matchDelimiterEnd(p, c)
    ELSE IF p.index - 2 = p.boundarySize THEN matchTrailingCR(p, c)
    ELSE IF p.index - p.boundarySize = 3 THEN matchTrailingLF(p, c)
    ELSE Stay(p)

\* The bytes onPartData(lookbehind, 0, n) hands over: a char never written
\* reads as junk, any byte.
replayData(p, n, junk) ==
    [k \in 1..n |->
        IF k > Len(p.lookbehind) THEN junk
        ELSE IF p.lookbehind[k] = Indeterminate THEN junk
        ELSE p.lookbehind[k]]

\* As keepOrReplay, but a false lead is dropped instead of handed over.
keepOrDrop(p, prevIndex, i, c, junk) ==
    IF p.index > 0
    THEN IF p.index - 1 >= p.lookbehindSize
         THEN Continue([setError(p, ErrOverflow) EXCEPT !.written = {}], <<>>, i)
         ELSE Continue([p EXCEPT !.lookbehind[p.index] = c,
                                 !.written = p.written \cup {p.index}], <<>>, i)
    ELSE IF prevIndex > 0
    THEN Continue([p EXCEPT !.partDataMark = i, !.written = {}], <<>>, i - 1)
    ELSE Continue([p EXCEPT !.written = {}], <<>>, i)

\* As keepOrReplay, without the step back of line 228.
keepOrReplayNoStepBack(p, prevIndex, i, c, junk) ==
    IF p.index > 0
    THEN IF p.index - 1 >= p.lookbehindSize
         THEN Continue([setError(p, ErrOverflow) EXCEPT !.written = {}], <<>>, i)
         ELSE Continue([p EXCEPT !.lookbehind[p.index] = c,
                                 !.written = p.written \cup {p.index}], <<>>, i)
    ELSE IF prevIndex > 0
    THEN Continue([p EXCEPT !.partDataMark = i, !.written = {}],
                  callback("onPartData", "lookbehind", replayData(p, prevIndex, junk),
                           0, prevIndex, FALSE, (1..prevIndex) \subseteq p.written),
                  i)
    ELSE Continue([p EXCEPT !.written = {}], <<>>, i)

\* As keepOrReplay, but the step back is taken whenever no candidate is
\* being matched, not only when one has just been rejected.
keepOrReplayAlways(p, prevIndex, i, c, junk) ==
    IF p.index > 0
    THEN IF p.index - 1 >= p.lookbehindSize
         THEN Continue([setError(p, ErrOverflow) EXCEPT !.written = {}], <<>>, i)
         ELSE Continue([p EXCEPT !.lookbehind[p.index] = c,
                                 !.written = p.written \cup {p.index}], <<>>, i)
    ELSE Continue([p EXCEPT !.partDataMark = i, !.written = {}],
                  callback("onPartData", "lookbehind", replayData(p, prevIndex, junk),
                           0, prevIndex, FALSE, (1..prevIndex) \subseteq p.written),
                  i - 1)

\* Lines 204-229: keep the byte in the lookbehind buffer, or hand the buffered
\* bytes of a false lead over as part data and step back.
keepOrReplay(p, prevIndex, i, c, junk) ==
    IF p.index > 0
    THEN IF p.index - 1 >= p.lookbehindSize
         THEN Continue([setError(p, ErrOverflow) EXCEPT !.written = {}], <<>>, i)
         ELSE Continue([p EXCEPT !.lookbehind[p.index] = c,
                                 !.written = p.written \cup {p.index}], <<>>, i)
    ELSE IF prevIndex > 0
    THEN Continue([p EXCEPT !.partDataMark = i, !.written = {}],
                  callback("onPartData", "lookbehind", replayData(p, prevIndex, junk),
                           0, prevIndex, FALSE, (1..prevIndex) \subseteq p.written),
                  i - 1)
    ELSE Continue([p EXCEPT !.written = {}], <<>>, i)

processPartData(p, buf, i0, junk) ==
    LET prevIndex == p.index
        i == IF p.index = 0 THEN skip(p, buf, i0) ELSE i0
    IN  IF p.index = 0 /\ i = Len(buf)
        THEN Continue(p, <<>>, i)
        ELSE LET c == buf[i + 1]
                 m == matchBoundary(p, buf, i, c)
             IN  IF m.ret
                 THEN Continue([m.p EXCEPT !.written = {}], m.ev, i)
                 ELSE LET k == keepOrReplay(m.p, prevIndex, i, c, junk)
                      IN  Continue(k.p, m.ev \o k.ev, k.i)

\* case PART_DATA_START (falls through) and case PART_DATA.
StepPartData(p0, buf, i, junk) ==
    LET p == IF p0.state = "PART_DATA_START"
             THEN [p0 EXCEPT !.state = "PART_DATA", !.partDataMark = i]
             ELSE p0
    IN  processPartData(p, buf, i, junk)

\* As StepStopped, with break in place of return i.
StepStoppedBreak(p, buf, i) == Continue(p, <<>>, i)

\* case ERROR and default: return i.
StepStopped(p, buf, i) == Return(p, <<>>, i, i)

\* ------------------------------------------------------------ feed()
Step(p, buf, i, junk) ==
    CASE p.state \in {"START", "START_BOUNDARY"} -> StepStartBoundary(p, buf, i)
      [] p.state \in {"HEADER_FIELD_START", "HEADER_FIELD"} -> StepHeaderField(p, buf, i)
      [] p.state \in {"HEADER_VALUE_START", "HEADER_VALUE"} -> StepHeaderValue(p, buf, i)
      [] p.state = "HEADER_VALUE_ALMOST_DONE" -> StepHeaderValueAlmostDone(p, buf, i)
      [] p.state = "HEADERS_ALMOST_DONE" -> StepHeadersAlmostDone(p, buf, i)
      [] p.state \in {"PART_DATA_START", "PART_DATA"} -> StepPartData(p, buf, i, junk)
      [] OTHER -> StepStopped(p, buf, i)

\* Lines 442-446: the open marks are delivered against this buffer and stay open.
flush(p, buf, i) ==
    LET f == dataCallback("onHeaderField", p.headerFieldMark, buf, i, FALSE, FALSE)
        v == dataCallback("onHeaderValue", p.headerValueMark, buf, i, FALSE, FALSE)
        d == dataCallback("onPartData", p.partDataMark, buf, i, FALSE, FALSE)
    IN  [p |-> [p EXCEPT !.headerFieldMark = f.mark, !.headerValueMark = v.mark,
                         !.partDataMark = d.mark],
         ev |-> f.ev \o v.ev \o d.ev]

\* One pass of the for loop (lines 334-440) on the call's running state st:
\* the test i < len, the loop body and the i++; when the test fails, the end of
\* the call (lines 442-446).  stopAt is the offset of the byte at which the
\* parser entered ERROR or END in this call (-1: none); passes counts the
\* executions of the loop body, visited lists the values of i they began with.
pass(st, buf, junk) ==
    IF st.done
    THEN st
    ELSE IF st.i >= Len(buf)
    THEN LET f == flush(st.p, buf, st.i)
         IN  [st EXCEPT !.p = f.p, !.ev = st.ev \o f.ev, !.ret = Len(buf), !.done = TRUE]
    ELSE LET s == Value(Step(st.p, buf, st.i, junk))
         IN  [p |-> s.p, i |-> IF s.done THEN s.i ELSE s.i + 1, ev |-> st.ev \o s.ev,
              stopAt |-> IF st.stopAt = -1 /\ stopped(s.p) /\ ~stopped(st.p)
                         THEN st.i ELSE st.stopAt,
              done |-> s.done, ret |-> s.ret, passes |-> st.passes + 1,
              visited |-> Append(st.visited, st.i)]

\* The loop: passes until the call has returned, n at most.
RECURSIVE passes(_, _, _, _)
passes(st, n, buf, junk) ==
    IF n = 0 \/ st.done THEN st
    ELSE passes(Value(pass(st, buf, junk)), n - 1, buf, junk)

\* feed(buffer, len): the parser after the call, the handler invocations in
\* order, and the value returned.  The loop body runs at most twice per byte
\* (a byte is looked at again only after the step back of line 228), so the
\* call has returned after 2 * len + 1 passes; done tells that it has.
feed(p, buf, junk) ==
    IF p.state = "ERROR" \/ Len(buf) = 0
    THEN [p |-> p, i |-> 0, ev |-> <<>>, stopAt |-> -1, done |-> TRUE, ret |-> 0, passes |-> 0,
          visited |-> <<>>]
    ELSE passes([p |-> p, i |-> 0, ev |-> <<>>, stopAt |-> -1, done |-> FALSE, ret |-> 0,
                 passes |-> 0, visited |-> <<>>],
                2 * Len(buf) + 1, buf, junk)

\* ------------------------------------------------------------ input
\* The bodies the collaborator feeds.  A message is kept as its structure (the
\* ground truth of what its parts are) next to its bytes.
MaxData == 3
MaxChunk == 5

Tokens == {<<98>>}                              \* "b"
JunkBytes == {13, 120}

Boundary(tok) == <<CR, LF, HYPHEN, HYPHEN>> \o tok
OpenDelim(tok) == <<HYPHEN, HYPHEN>> \o tok \o <<CR, LF>>
Separator(tok) == Boundary(tok) \o <<CR, LF>>
Terminator(tok) == Boundary(tok) \o <<HYPHEN, HYPHEN>>

Line(name, colon, raw) == [name |-> name, colon |-> colon, raw |-> raw]
Part(headers, data) == [headers |-> headers, data |-> data]
Message(tok, openErr, parts, epi) ==
    [tok |-> tok, openErr |-> openErr, parts |-> parts, epi |-> epi]

RECURSIVE Repeat(_, _)
Repeat(c, n) == IF n = 0 THEN <<>> ELSE <<c>> \o Repeat(c, n - 1)

RECURSIVE Concat(_)
Concat(ss) == IF ss = <<>> THEN <<>> ELSE Head(ss) \o Concat(Tail(ss))

LineBytes(h) == h.name \o (IF h.colon THEN <<COLON>> \o h.raw ELSE <<>>) \o <<CR, LF>>
PartBytes(part) ==
    Concat([k \in 1..Len(part.headers) |-> LineBytes(part.headers[k])])
        \o <<CR, LF>> \o part.data
OpenBytes(m) ==
    [k \in 1..Len(OpenDelim(m.tok)) |->
        IF k # m.openErr THEN OpenDelim(m.tok)[k]
        ELSE IF OpenDelim(m.tok)[k] = 120 THEN 121 ELSE 120]
Bytes(m) ==
    OpenBytes(m)
        \o Concat([k \in 1..Len(m.parts) |->
                     (IF k = 1 THEN <<>> ELSE Separator(m.tok)) \o PartBytes(m.parts[k])])
        \o Terminator(m.tok) \o m.epi

\* Header lines: "a:v", "A-b: " (one leading space, empty value).
HeaderBlocks ==
    {<<>>, <<Line(<<97>>, TRUE, <<118>>)>>,
     <<Line(<<65, 45, 98>>, TRUE, <<SPACE>>), Line(<<97>>, TRUE, <<118>>)>>}

RECURSIVE SeqsUpTo(_, _)
SeqsUpTo(S, n) ==
    IF n = 0 THEN {<<>>}
    ELSE LET shorter == SeqsUpTo(S, n - 1)
         IN  shorter \cup {Append(t, x) : t \in shorter, x \in S}

\* Every part body of at most MaxData bytes over x, CR, LF, HYPHEN.
PlainData == SeqsUpTo({120, CR, LF, HYPHEN}, MaxData)
\* Bodies that hold a false lead: a prefix of the boundary, or the whole
\* boundary and one byte of a delimiter line, then a byte that breaks it.
FalseLeads(tok) ==
    LET b == Boundary(tok)
        leads == {SubSeq(b, 1, k) : k \in 1..Len(b)} \cup {b \o <<CR>>, b \o <<HYPHEN>>}
    IN  {l \o t : l \in leads, t \in {<<120>>, <<CR>>, <<120, 120>>}}
FewData == {<<>>, <<120>>}

Contains(s, t) == \E k \in 0..(Len(s) - Len(t)) : SubSeq(s, k + 1, k + Len(t)) = t

Messages(tok) ==
    LET bare == <<>>
        lone == <<Part(bare, <<120>>)>>
        one == {Message(tok, 0, <<Part(bare, d)>>, <<>>) : d \in PlainData \cup FalseLeads(tok)}
               \cup {Message(tok, 0, <<Part(h, d)>>, e) :
                        h \in HeaderBlocks, d \in FewData, e \in {<<>>, <<CR, LF>>}}
        two == {Message(tok, 0, <<Part(bare, d), Part(bare, <<120>>)>>, <<>>) :
                        d \in PlainData \cup FalseLeads(tok)}
               \cup {Message(tok, 0, <<Part(h, <<120>>), Part(g, <<>>)>>, <<>>) :
                        h \in HeaderBlocks, g \in HeaderBlocks}
        badOpen == {Message(tok, k, lone, <<>>) : k \in 1..Len(OpenDelim(tok))}
        colonless == {Message(tok, 0, <<Part(<<Line(Repeat(97, n), FALSE, <<>>)>>, d)>>, <<>>) :
                        n \in 1..(Len(Boundary(tok)) + 9), d \in FewData}
    IN  one \cup two \cup badOpen \cup colonless

\* ------------------------------------------------------------ state
VARIABLES
    parser,     \* the MultipartParser object
    msg,        \* the body being received
    input,      \* its bytes
    pos,        \* how many of them the collaborator has handed to feed()
    trace,      \* what the handlers have assembled since the parser was set up
    call,       \* the last operation: its arguments, result and the parser before it
    value,      \* a header value the collaborator hands to the helpers
    item        \* the collaborator's itemName, itemFilename, itemIsFile

vars == <<parser, msg, input, pos, trace, call, value, item>>

DataCallbacks == {"onHeaderField", "onHeaderValue", "onPartData"}

\* The handlers append the bytes of a data callback to the segment they are
\* assembling, and start a new entry on every other event.
Deliver(tr, e) ==
    IF e.cb \in DataCallbacks /\ tr # <<>> /\ tr[Len(tr)].cb = e.cb
    THEN [tr EXCEPT ![Len(tr)].data = @ \o e.data]
    ELSE Append(tr, [cb |-> e.cb, data |-> e.data])

RECURSIVE DeliverAll(_, _)
DeliverAll(tr, ev) ==
    IF ev = <<>> THEN tr ELSE DeliverAll(Value(Deliver(tr, Head(ev))), Tail(ev))

\* arg holds what a call was given besides the buffer, thrown whether it ended
\* by throwing, done whether it returned, visited the offsets at which the
\* loop body of feed() ran.
NoCall(p) ==
    [op |-> "new", len |-> 0, ret |-> 0, ev |-> <<>>, stopAt |-> -1, pre |-> p,
     arg |-> <<>>, thrown |-> FALSE, done |-> TRUE, visited |-> <<>>]

\* The collaborator's variables before a call of getFileInfos.
NoItem == [name |-> <<111>>, filename |-> <<111>>, isFile |-> FALSE]

\* MultipartParser(boundary), line 249; the first body is about to arrive.
Init ==
    \E tok \in Tokens :
        /\ parser = setBoundary(reset([state |-> "ERROR"]), tok)
        /\ msg \in Messages(tok)
        /\ input = Bytes(msg)
        /\ pos = 0
        /\ trace = <<>>
        /\ call = NoCall(parser)
        /\ value = <<>>
        /\ item = NoItem

\* feed(buffer, n) on the next n bytes of the body; the collaborator moves on
\* by the number of bytes feed() reports as consumed.  A replay that reads
\* chars of the lookbehind buffer nobody wrote may hand over any byte.
FeedWith(n) ==
    LET buf == SubSeq(input, pos + 1, pos + n)
    IN  \E first \in {feed(parser, buf, CR)} :
        \E junk \in (IF \E k \in 1..Len(first.ev) : ~first.ev[k].fresh
                     THEN JunkBytes ELSE {CR}) :
        \E r \in {IF junk = CR THEN first ELSE feed(parser, buf, junk)} :
            /\ parser' = r.p
            /\ pos' = pos + r.ret
            /\ trace' = DeliverAll(trace, r.ev)
            /\ call' = [op |-> "feed", len |-> n, ret |-> r.ret, ev |-> r.ev,
                        stopAt |-> r.stopAt, pre |-> parser, arg |-> <<>>, thrown |-> FALSE,
                        done |-> r.done, visited |-> r.visited]
            /\ UNCHANGED <<msg, input, value, item>>

FeedChunk ==
    \E n \in 1..MaxChunk :
        /\ pos + n <= Len(input)
        /\ FeedWith(n)

\* feed() on everything that is left of the body.
FeedRest ==
    /\ pos + MaxChunk < Len(input)
    /\ FeedWith(Len(input) - pos)

\* feed(buffer, 0).
FeedEmpty ==
    /\ call.op # "feed" \/ call.len # 0
    /\ FeedWith(0)

\* reset(); the body is received again from its start.
Reset ==
    /\ call.op # "reset"
    /\ parser' = reset(parser)
    /\ pos' = 0
    /\ trace' = <<>>
    /\ call' = [NoCall(parser) EXCEPT !.op = "reset"]
    /\ UNCHANGED <<msg, input, value, item>>

\* setBoundary(token); the body is received again from its start.
SetBoundary ==
    /\ call.op \notin {"new", "setBoundary"}
    /\ parser' = setBoundary(parser, msg.tok)
    /\ pos' = 0
    /\ trace' = <<>>
    /\ call' = [NoCall(parser) EXCEPT !.op = "setBoundary"]
    /\ UNCHANGED <<msg, input, value, item>>

Next == FeedChunk \/ FeedRest \/ FeedEmpty \/ Reset \/ SetBoundary

Spec == Init /\ [][Next]_vars

\* ------------------------------------------------------------ the helpers
\* Header values the collaborator hands to setBoundary(key, value) and to
\* getFileInfos.  Content-Type values:
\*   text/plain
\*   text/plain; boundary=b
\*   multipart/form-data; boundary=b
\*   multipart/mixed; boundary=q
\*   multipart/form-data
\*   boundary=b; multipart/x
\*   multipart/x; boundary=b; boundary=q
ContentTypes ==
    {<<116, 101, 120, 116, 47, 112, 108, 97, 105, 110>>,
     <<116, 101, 120, 116, 47, 112, 108, 97, 105, 110, 59, 32, 98, 111, 117, 110, 100, 97, 114, 121, 61, 98>>,
     <<109, 117, 108, 116, 105, 112, 97, 114, 116, 47, 102, 111, 114, 109, 45, 100, 97, 116, 97, 59, 32, 98, 111, 117, 110, 100, 97, 114, 121, 61, 98>>,
     <<109, 117, 108, 116, 105, 112, 97, 114, 116, 47, 109, 105, 120, 101, 100, 59, 32, 98, 111, 117, 110, 100, 97, 114, 121, 61, 113>>,
     <<109, 117, 108, 116, 105, 112, 97, 114, 116, 47, 102, 111, 114, 109, 45, 100, 97, 116, 97>>,
     <<98, 111, 117, 110, 100, 97, 114, 121, 61, 98, 59, 32, 109, 117, 108, 116, 105, 112, 97, 114, 116, 47, 120>>,
     <<109, 117, 108, 116, 105, 112, 97, 114, 116, 47, 120, 59, 32, 98, 111, 117, 110, 100, 97, 114, 121, 61, 98, 59, 32, 98, 111, 117, 110, 100, 97, 114, 121, 61, 113>>}

FormData == <<102, 111, 114, 109, 45, 100, 97, 116, 97>>                    \* "form-data"
\* ; key="v"
Param(key, v) == <<SEMICOLON, SPACE>> \o key \o <<EQUALS, QUOTE>> \o v \o <<QUOTE>>
\* Field names and file names: "", "n", "x.t", "a;b".
Names == {<<>>, <<110>>, <<120, 46, 116>>, <<97, 59, 98>>}
\* form-data; name="N"; filename="F"
WithFile(N, F) == FormData \o Param(NameKey, N) \o Param(FilenameKey, F)
\* form-data; name="N"
NoFile(N) == FormData \o Param(NameKey, N)
\* form-data; filename="F"; name="N"
FileFirst(N, F) == FormData \o Param(FilenameKey, F) \o Param(NameKey, N)
Dispositions ==
    {WithFile(N, F) : N \in Names, F \in Names}
    \cup {NoFile(N) : N \in Names}
    \cup {FileFirst(<<110>>, <<120, 46, 116>>), FormData, FormData \o <<SEMICOLON>>}
HeaderValues == ContentTypes \cup Dispositions

\* The bodies received while the helpers are called: one part with a header
\* line, and two parts.
HelperMessages(tok) ==
    {Message(tok, 0, <<Part(<<Line(<<97>>, TRUE, <<118>>)>>, <<120>>)>>, <<>>),
     Message(tok, 0, <<Part(<<>>, <<CR, 120>>), Part(<<>>, <<>>)>>, <<>>)}

HelperInit ==
    \E tok \in Tokens :
        /\ parser = setBoundary(reset([state |-> "ERROR"]), tok)
        /\ msg \in HelperMessages(tok)
        /\ input = Bytes(msg)
        /\ pos = 0
        /\ trace = <<>>
        /\ call = NoCall(parser)
        /\ value \in HeaderValues
        /\ item = NoItem

\* setBoundary(key, value) with the header value; when it configures the
\* parser the body is received again from its start.
SetBoundaryKeyValue ==
    /\ call.op # "setBoundaryKeyValue"
    /\ \E r \in {setBoundaryKeyValue(parser, value)} :
        /\ parser' = r.p
        /\ pos' = (IF r.ret = 0 THEN 0 ELSE pos)
        /\ trace' = (IF r.ret = 0 THEN <<>> ELSE trace)
        /\ call' = [NoCall(parser) EXCEPT !.op = "setBoundaryKeyValue", !.ret = r.ret,
                                          !.arg = value, !.thrown = r.thrown]
    /\ UNCHANGED <<msg, input, value, item>>

\* getFileInfos(key, value, itemName, itemFilename, itemIsFile) with the
\* header value and the collaborator's three variables.
GetFileInfos ==
    /\ call.op # "getFileInfos"
    /\ \E r \in {getFileInfos(value, item)} :
        /\ item' = r.item
        /\ call' = [NoCall(parser) EXCEPT !.op = "getFileInfos", !.ret = r.ret,
                                          !.arg = item, !.thrown = r.thrown]
    /\ UNCHANGED <<parser, msg, input, pos, trace, value>>

HelperNext == FeedChunk \/ Reset \/ SetBoundaryKeyValue \/ GetFileInfos

HelperSpec == HelperInit /\ [][HelperNext]_vars

\* ------------------------------------------------------------ ground truth
IsPrefix(s, t) == Len(s) <= Len(t) /\ SubSeq(t, 1, Len(s)) = s

\* A delimiter line (separator or terminator) starts at offset k of s.
DelimiterAt(s, k, tok) ==
    SubSeq(s, k + 1, k + Len(Boundary(tok)) + 2) \in {Separator(tok), Terminator(tok)}

\* The body d of a part is told from the delimiter that follows it: no
\* delimiter line starts inside d.
SoundData(d, tok) ==
    \A k \in 0..(Len(d) - 1) :
        /\ ~DelimiterAt(d \o Separator(tok), k, tok)
        /\ ~DelimiterAt(d \o Terminator(tok), k, tok)

\* RFC 2046: the boundary does not occur in the body of a part.
CleanData(d, tok) ==
    \A k \in 0..(Len(d) - 1) :
        SubSeq(d \o Boundary(tok), k + 1, k + Len(Boundary(tok))) # Boundary(tok)

\* The message is built as the grammar of 4.2 / 4.3 says.
WellFormed(m) ==
    /\ m.openErr = 0
    /\ \A k \in 1..Len(m.parts) :
        /\ \A j \in 1..Len(m.parts[k].headers) :
            m.parts[k].headers[j].colon /\ m.parts[k].headers[j].name # <<>>
        /\ SoundData(m.parts[k].data, m.tok)

Valid(m) ==
    /\ WellFormed(m)
    /\ \A k \in 1..Len(m.parts) : CleanData(m.parts[k].data, m.tok)

\* The header value of a line: the bytes after the colon and a leading space.
ValueOf(h) == IF h.raw # <<>> /\ Head(h.raw) = SPACE THEN Tail(h.raw) ELSE h.raw

Seen(cb, data) == [cb |-> cb, data |-> data]

ExpectedPart(part) ==
    <<Seen("onPartBegin", <<>>)>>
    \o Concat([j \in 1..Len(part.headers) |->
                <<Seen("onHeaderField", part.headers[j].name),
                  Seen("onHeaderValue", ValueOf(part.headers[j])),
                  Seen("onHeaderEnd", <<>>)>>])
    \o <<Seen("onHeadersEnd", <<>>)>>
    \o (IF part.data = <<>> THEN <<>> ELSE <<Seen("onPartData", part.data)>>)
    \o <<Seen("onPartEnd", <<>>)>>

Expected(m) ==
    Concat([k \in 1..Len(m.parts) |-> ExpectedPart(m.parts[k])]) \o <<Seen("onEnd", <<>>)>>

\* Offset of the first byte after the terminal boundary.
TerminalEnd(m) == Len(Bytes(m)) - Len(m.epi)

\* The part bodies the handlers have assembled: the onPartData bytes of each
\* onPartBegin .. onPartEnd bracket, and whether the bracket is closed.
RECURSIVE Bodies(_, _)
Bodies(tr, acc) ==
    IF tr = <<>> THEN acc
    ELSE LET e == Head(tr)
             n == Len(acc)
         IN  Bodies(Tail(tr), Value(
                CASE e.cb = "onPartBegin" -> Append(acc, [data |-> <<>>, ended |-> FALSE])
                  [] e.cb = "onPartData" /\ n > 0 -> [acc EXCEPT ![n].data = @ \o e.data]
                  [] e.cb = "onPartData" /\ n = 0 -> <<[data |-> e.data, ended |-> FALSE]>>
                  [] e.cb = "onPartEnd" /\ n > 0 -> [acc EXCEPT ![n].ended = TRUE]
                  [] OTHER -> acc))

Configured == parser.boundary # <<>>
Fresh == setBoundary(reset(parser), msg.tok)

\* ------------------------------------------------------------ claims
\* C1: chunk-size independence.  For a valid message, whatever feed() calls
\* the consumed bytes arrived in, the handlers have assembled exactly what a
\* single feed() of those bytes on a freshly configured parser hands over
\* (header names and values, part bodies, and the order of the events), and
\* the parser is in the same state.
C1_ChunkIndependence ==
    (Valid(msg) /\ Configured) =>
        LET whole == feed(Fresh, SubSeq(input, 1, pos), CR)
        IN  /\ trace = DeliverAll(<<>>, whole.ev)
            /\ pos > 0 => parser.state = whole.p.state

\* A feed() call of one byte that began inside a boundary candidate of a valid
\* message and carried it on.
C1_Witness ==
    /\ Valid(msg)
    /\ call.op = "feed" /\ call.len = 1
    /\ call.pre.state = "PART_DATA" /\ call.pre.index = 2
    /\ parser.state = "PART_DATA" /\ parser.index = 3
    /\ msg.parts[1].data = SubSeq(Boundary(msg.tok), 1, 4) \o <<120>>

\* C2: no loss, no duplication.  For a well-formed message, the onPartData
\* bytes handed over between a part's onHeadersEnd and its onPartEnd are
\* exactly the body of that part, false leads included; and while a part of a
\* valid message is still open, what has been handed over is the beginning of
\* its body.
C2_NoLossNoDuplication ==
    (WellFormed(msg) /\ Configured) =>
        LET got == Bodies(trace, <<>>)
        IN  /\ Len(got) <= Len(msg.parts)
            /\ \A k \in 1..Len(got) :
                /\ got[k].ended => got[k].data = msg.parts[k].data
                /\ Valid(msg) => IsPrefix(got[k].data, msg.parts[k].data)

\* A part has ended whose body holds the whole boundary and a CR, a false
\* lead that was held in the lookbehind buffer across a feed() call.
C2_Witness ==
    /\ WellFormed(msg)
    /\ Len(msg.parts) = 2
    /\ msg.parts[1].data = Boundary(msg.tok) \o <<CR, 120>>
    /\ call.op = "feed" /\ call.len = 1
    /\ Len(Bodies(trace, <<>>)) = 2
    /\ Bodies(trace, <<>>)[1].ended
    /\ Bodies(trace, <<>>)[1].data = msg.parts[1].data

\* C3: the callback trace of a valid message.  Once the terminal boundary of a
\* valid message has been consumed, in whatever chunks, the handlers have seen,
\* part by part, onPartBegin, the header lines (name, value, onHeaderEnd),
\* onHeadersEnd, the body, onPartEnd, and then one onEnd; and succeeded() holds.
C3_TraceOfValidMessage ==
    (Valid(msg) /\ Configured /\ pos >= TerminalEnd(msg)) =>
        /\ succeeded(parser)
        /\ trace = Expected(msg)

\* A valid message of two parts with header lines has been fed to its end,
\* the last call with fewer bytes than the boundary has.
C3_Witness ==
    /\ Valid(msg)
    /\ Len(msg.parts) = 2
    /\ Len(msg.parts[1].headers) = 2
    /\ msg.parts[2].headers # <<>>
    /\ pos = TerminalEnd(msg)
    /\ call.op = "feed" /\ call.len = 2
    /\ succeeded(parser)

\* C4: the terminal states are idempotent.  A feed() call on a parser in ERROR
\* or END returns 0, invokes no handler and leaves every field of the parser
\* as it was, so that only reset() / setBoundary() leave a terminal state.
C4_TerminalIdempotent ==
    (call.op = "feed" /\ stopped(call.pre)) =>
        /\ call.ret = 0
        /\ call.ev = <<>>
        /\ parser = call.pre

\* feed() was called with bytes on a parser that had reached END.
C4_Witness ==
    /\ call.op = "feed"
    /\ succeeded(call.pre)
    /\ call.len > 0
    /\ call.ret = 0

C6_BoundaryMismatch ==
    Configured =>
        LET open == OpenDelim(msg.tok)
            before == pos - call.ret
        IN  /\ msg.openErr > 0 =>
                /\ trace = <<>>
                /\ pos < msg.openErr
                /\ (call.op = "feed" /\ ~stopped(call.pre)
                        /\ before + call.len >= msg.openErr) =>
                    /\ hasError(parser)
                    /\ before + call.ret = msg.openErr - 1
                    /\ call.ev = <<>>
                /\ hasError(parser) =>
                    /\ pos = msg.openErr - 1
                    /\ parser.errorReason \in {ErrDifferent, ErrExpectedCR, ErrExpectedLF}
                /\ ~hasError(parser) => parser.state \in {"START", "START_BOUNDARY"}
            /\ msg.openErr = 0 =>
                /\ pos < Len(open) =>
                    trace = <<>> /\ parser.state \in {"START", "START_BOUNDARY"}
                /\ pos = Len(open) =>
                    /\ trace = <<Seen("onPartBegin", <<>>)>>
                    /\ parser.state = "HEADER_FIELD_START"
                /\ pos >= Len(open) => trace # <<>> /\ trace[1].cb = "onPartBegin"
                /\ (call.op = "feed" /\ before < Len(open) /\ pos >= Len(open)) =>
                    call.ev[1].cb = "onPartBegin"

\* The third byte of the opening delimiter is wrong; a feed() call of three
\* bytes that began at offset 1 entered ERROR and returned 1.
C6_Witness ==
    /\ msg.openErr = 3
    /\ call.op = "feed" /\ call.len = 3 /\ call.ret = 1
    /\ call.pre.state = "START_BOUNDARY"
    /\ hasError(parser)
    /\ parser.errorReason = ErrDifferent
    /\ trace = <<>>

\* C7 as stated: no input drives the parser into ERROR with the diagnostic of
\* the lookbehind overflow.
C7_NoLookbehindFault == parser.errorReason # ErrOverflow

\* C8 as stated: every write to the lookbehind buffer is inside it, and every
\* replay onPartData(lookbehind, 0, n) has n <= boundarySize + 8 and reads only
\* chars written during the candidate it replays.
C8_LookbehindInBounds ==
    /\ parser.written \subseteq 1..parser.lookbehindSize
    /\ \A k \in 1..Len(call.ev) :
        call.ev[k].src = "lookbehind" =>
            /\ call.ev[k].start = 0
            /\ call.ev[k].end <= call.pre.lookbehindSize
            /\ call.ev[k].fresh

\* C9: setBoundary(token), in whatever state it is called, leaves the parser
\* in START with the three marks unmarked, flags 0, index 0, the boundary
\* CR LF "--" token, a lookbehind buffer of boundarySize + 8 chars, no error
\* and the message "No error.".
C9_SetBoundary ==
    call.op = "setBoundary" =>
        /\ parser.state = "START"
        /\ parser.headerFieldMark = UNMARKED
        /\ parser.headerValueMark = UNMARKED
        /\ parser.partDataMark = UNMARKED
        /\ parser.flags = 0
        /\ parser.index = 0
        /\ parser.boundary = <<CR, LF, HYPHEN, HYPHEN>> \o msg.tok
        /\ parser.boundarySize = Len(msg.tok) + 4
        /\ parser.lookbehindSize = parser.boundarySize + 8
        /\ Len(parser.lookbehind) = parser.lookbehindSize
        /\ ~hasError(parser)
        /\ getErrorMessage(parser) = ErrNone

\* setBoundary() was called on a parser in END, with a flag set and a
\* non-zero index.
C9_Witness ==
    /\ call.op = "setBoundary"
    /\ call.pre.state = "END"
    /\ call.pre.flags # 0
    /\ call.pre.index > 0

Owed(cb, bytes) == [k \in 1..Len(bytes) |-> <<Seen(cb, <<bytes[k]>>)>>]
Nothing(n) == [k \in 1..n |-> <<>>]

RECURSIVE LeadingSpaces(_)
LeadingSpaces(raw) ==
    IF raw # <<>> /\ Head(raw) = SPACE THEN 1 + LeadingSpaces(Tail(raw)) ELSE 0

LineScript(h) ==
    Owed("onHeaderField", h.name)
    \o (IF h.colon
        THEN Nothing(1 + LeadingSpaces(h.raw))
             \o Owed("onHeaderValue", SubSeq(h.raw, LeadingSpaces(h.raw) + 1, Len(h.raw)))
             \o <<<<Seen("onHeaderValue", <<>>), Seen("onHeaderEnd", <<>>)>>, <<>>>>
        ELSE Nothing(2))

PartScript(part) ==
    Concat([j \in 1..Len(part.headers) |-> LineScript(part.headers[j])])
    \o <<<<>>, <<Seen("onHeadersEnd", <<>>)>>>>
    \o Owed("onPartData", part.data)

Script(m) ==
    Nothing(Len(OpenDelim(m.tok)) - 1)
    \o <<IF m.openErr = 0 THEN <<Seen("onPartBegin", <<>>)>> ELSE <<>>>>
    \o Concat([k \in 1..Len(m.parts) |->
                 (IF k = 1 THEN <<>>
                  ELSE Nothing(Len(Boundary(m.tok)) + 1)
                       \o <<<<Seen("onPartEnd", <<>>), Seen("onPartBegin", <<>>)>>>>)
                 \o PartScript(m.parts[k])])
    \o Nothing(Len(Boundary(m.tok)) + 1)
    \o <<<<Seen("onPartEnd", <<>>), Seen("onEnd", <<>>)>>>>
    \o Nothing(Len(m.epi))

\* What the handlers have assembled once the first n bytes are accounted for.
ExpectedPrefix(m, n) == DeliverAll(<<>>, Concat(SubSeq(Script(m), 1, n)))

\* The bytes of the body that the parser holds back: the unresolved boundary
\* candidate in the lookbehind buffer.
Held(p) == IF p.state = "PART_DATA" THEN p.index ELSE 0

\* The marks after a call that ended inside a segment: the open one is at
\* offset 0 of the next buffer, the others are unmarked.
MarksCarried(p) ==
    /\ p.headerFieldMark = (IF p.state = "HEADER_FIELD" THEN 0 ELSE UNMARKED)
    /\ p.headerValueMark = (IF p.state = "HEADER_VALUE" THEN 0 ELSE UNMARKED)
    /\ p.partDataMark = (IF p.state = "PART_DATA" /\ p.index = 0 THEN 0 ELSE UNMARKED)

FedAll == call.op = "feed" /\ call.len > 0 /\ call.ret = call.len /\ ~stopped(parser)

\* C11 as stated: after every feed() call that returns length and leaves the
\* parser neither in ERROR nor in END, the handlers have received every
\* header-name, header-value and part-data byte consumed so far, but for the
\* index bytes of an unresolved boundary candidate; the mark of the open
\* segment is at 0 for the next buffer.
C11_EndOfCallFlush ==
    (FedAll /\ Configured) =>
        /\ trace = ExpectedPrefix(msg, pos - Held(parser))
        /\ MarksCarried(parser)

\* C11 on valid messages.
C11_FlushOfValid ==
    (FedAll /\ Configured /\ Valid(msg)) =>
        /\ trace = ExpectedPrefix(msg, pos - Held(parser))
        /\ MarksCarried(parser)

\* The buffer of the last feed() call.
CallBuffer == SubSeq(input, pos - call.ret + 1, pos - call.ret + call.len)

\* C12: empty-emission suppression.  No handler of a data callback is invoked
\* with start = end, but onHeaderValue at the CR that ends a header value
\* (the invocation onHeaderEnd follows).
C12_NoEmptyEmission ==
    \A k \in 1..Len(call.ev) :
        LET e == call.ev[k]
        IN  e.cb \in DataCallbacks =>
                \/ 0 <= e.start /\ e.start < e.end
                \/ /\ e.start = e.end
                   /\ e.cb = "onHeaderValue"
                   /\ e.src = "input"
                   /\ CallBuffer[e.end + 1] = CR
                   /\ k < Len(call.ev)
                   /\ call.ev[k + 1].cb = "onHeaderEnd"

\* A feed() call handed an empty header value over and, in the same call,
\* went past a part-data mark set at the first byte of a boundary.
C12_Witness ==
    /\ call.op = "feed"
    /\ \E k \in 1..Len(call.ev) :
        call.ev[k].cb = "onHeaderValue" /\ call.ev[k].start = call.ev[k].end
    /\ parser.state = "PART_DATA" /\ parser.index > 0
    /\ msg.parts[1].data = <<>>

\* The header lines the handlers have assembled, part by part: name, value,
\* and the number of onHeaderEnd events of each line.
RECURSIVE HeadersOf(_, _)
HeadersOf(tr, acc) ==
    IF tr = <<>> THEN acc
    ELSE LET e == Head(tr)
             n == Len(acc)
             l == IF n = 0 THEN 0 ELSE Len(acc[n])
         IN  HeadersOf(Tail(tr), Value(
                CASE e.cb = "onPartBegin" -> Append(acc, <<>>)
                  [] e.cb = "onHeaderField" /\ n > 0 ->
                        [acc EXCEPT ![n] = Append(@, [name |-> e.data, value |-> <<>>,
                                                      values |-> 0, ends |-> 0])]
                  [] e.cb = "onHeaderValue" /\ l > 0 ->
                        [acc EXCEPT ![n][l].value = @ \o e.data, ![n][l].values = @ + 1]
                  [] e.cb = "onHeaderEnd" /\ l > 0 -> [acc EXCEPT ![n][l].ends = @ + 1]
                  [] OTHER -> acc))

\* Offset of the first byte of part k, and of the CR that ends its line j.
PartStart(m, k) ==
    Len(OpenDelim(m.tok))
    + Len(Concat([q \in 1..(k - 1) |-> PartBytes(m.parts[q]) \o Separator(m.tok)]))
LineCR(m, k, j) ==
    PartStart(m, k)
    + Len(Concat([q \in 1..j |-> LineBytes(m.parts[k].headers[q])])) - 2

\* C13: header delivery.  For every header line Name ":" [SPACE] Value CR LF
\* of a well-formed message, once its CR has been consumed the handlers have
\* assembled exactly Name from the onHeaderField slices, exactly Value from the
\* onHeaderValue slices that follow, and one onHeaderEnd; the lines of a part
\* come in the order of the message, and none is invented.
C13_HeaderDelivery ==
    (WellFormed(msg) /\ Configured) =>
        LET got == HeadersOf(trace, <<>>)
        IN  /\ Len(got) <= Len(msg.parts)
            /\ \A k \in 1..Len(got) : Len(got[k]) <= Len(msg.parts[k].headers)
            /\ \A k \in 1..Len(msg.parts) : \A j \in 1..Len(msg.parts[k].headers) :
                LET h == msg.parts[k].headers[j]
                IN  IF pos > LineCR(msg, k, j)
                    THEN /\ Len(got) >= k /\ Len(got[k]) >= j
                         /\ got[k][j] = [name |-> h.name, value |-> ValueOf(h),
                                         values |-> 1, ends |-> 1]
                    ELSE (Len(got) >= k /\ Len(got[k]) >= j) =>
                         /\ got[k][j].ends = 0
                         /\ IsPrefix(got[k][j].name, h.name)
                         /\ IsPrefix(got[k][j].value, ValueOf(h))

\* The second header line of a part has been delivered whole, its value in a
\* feed() call of one byte that began in HEADER_VALUE.
C13_Witness ==
    /\ WellFormed(msg)
    /\ Len(msg.parts[1].headers) = 2
    /\ call.op = "feed" /\ call.len = 1
    /\ call.pre.state = "HEADER_VALUE"
    /\ pos = LineCR(msg, 1, 2) + 1
    /\ HeadersOf(trace, <<>>)[1][2].ends = 1

\* C16 as stated: terminal boundary recognition.  Whatever the body of the
\* last part held before it (false leads included: the whole boundary
\* followed by CR and a non-LF byte, or by HYPHEN and a non-HYPHEN byte), once
\* CR LF "--" token "--" has been consumed from PART_DATA the handlers have
\* seen onPartEnd and then onEnd, and the parser is in END, entered at the
\* second trailing hyphen.
C16_TerminalBoundary ==
    (WellFormed(msg) /\ Configured /\ pos >= TerminalEnd(msg)) =>
        /\ succeeded(parser)
        /\ Len(trace) >= 2
        /\ trace[Len(trace) - 1].cb = "onPartEnd"
        /\ trace[Len(trace)].cb = "onEnd"
        /\ (call.op = "feed" /\ pos - call.ret < TerminalEnd(msg)) =>
            call.stopAt = TerminalEnd(msg) - 1 - (pos - call.ret)

\* C16 on bodies in which the boundary is nowhere followed by CR.
C16_WithoutStaleFlag ==
    (WellFormed(msg) /\ Configured /\ pos >= TerminalEnd(msg)
        /\ \A k \in 1..Len(msg.parts) :
              ~Contains(msg.parts[k].data, Boundary(msg.tok) \o <<CR>>)) =>
        /\ succeeded(parser)
        /\ Len(trace) >= 2
        /\ trace[Len(trace) - 1].cb = "onPartEnd"
        /\ trace[Len(trace)].cb = "onEnd"

\* The replays (onPartData from the lookbehind buffer) among the invocations
\* ev: their positions in ev.
ReplaysIn(ev) == {k \in 1..Len(ev) : ev[k].src = "lookbehind"}

\* The last feed() call, had it been given only the first n bytes of its buffer.
CallUpTo(n) == feed(call.pre, SubSeq(CallBuffer, 1, n), CR)

\* The byte of the call's buffer (1 is the first) that brought the j-th
\* replay of the call: the byte that rejected the candidate.
RejectAt(j) ==
    CHOOSE n \in 1..call.len :
        /\ Cardinality(ReplaysIn(CallUpTo(n).ev)) >= j
        /\ \A m \in 1..(n - 1) : Cardinality(ReplaysIn(CallUpTo(m).ev)) < j

\* The j-th replay of the last call is as C17 says.
ReplayIsSound(j) ==
    LET k == CHOOSE x \in ReplaysIn(call.ev) :
                Cardinality({y \in ReplaysIn(call.ev) : y <= x}) = j
        e == call.ev[k]
        n == RejectAt(j)
        before == CallUpTo(n - 1).p
        after == CallUpTo(n)
        c == CallBuffer[n]
        last == Len(after.ev)
    IN  /\ before.state = "PART_DATA"
        /\ before.index > 0
        /\ e.cb = "onPartData" /\ e.start = 0 /\ e.end = before.index
        /\ e.data = SubSeq(input, pos - call.ret + n - e.end, pos - call.ret + n - 1)
        /\ IF c = before.boundary[1]
           THEN /\ after.p.index = 1
                /\ after.p.partDataMark = UNMARKED
                /\ after.ev[last].src = "lookbehind"
           ELSE /\ after.p.index = 0
                /\ after.p.partDataMark = 0
                /\ after.ev[last] = Event("onPartData", "input", n - 1, n, <<c>>, TRUE)
                /\ after.ev[last - 1].src = "lookbehind"

\* C17 as stated: false-match replay.  Whenever a byte rejects a boundary
\* candidate of k > 0 bytes, the k bytes consumed during the candidate are
\* handed over by one onPartData(lookbehind, 0, k), the part-data mark is
\* reopened at the rejecting byte, and that byte is processed again with
\* index 0: it starts the next candidate or is delivered once, after the
\* replay; also when the candidate began in an earlier feed() call.
C17_FalseMatchReplay ==
    (call.op = "feed" /\ Configured) =>
        \A j \in 1..Cardinality(ReplaysIn(call.ev)) : ReplayIsSound(j)

\* C17 on messages whose header lines all have their colon.
C17_ReplayAfterHeaders ==
    (call.op = "feed" /\ Configured /\ WellFormed(msg)) =>
        \A j \in 1..Cardinality(ReplaysIn(call.ev)) : ReplayIsSound(j)

\* The parser with every byte marked as a byte of the boundary: line 133
\* then breaks out of the skip loop at once, and the scan goes byte by byte.
WithoutSkip(p) == [p EXCEPT !.boundaryIndex = 0..255]

\* An occurrence of the boundary begins at offset k of buf: as far as buf
\* reaches, its bytes from k on are those of the boundary.
BoundaryBeginsAt(p, buf, k) ==
    \A q \in 1..p.boundarySize : k + q <= Len(buf) => buf[k + q] = p.boundary[q]

\* The parser but for the scratch content of the lookbehind buffer, which is
\* read only by a replay.
Settled(p) == [p EXCEPT !.lookbehind = <<>>, !.written = {}]

\* C18: skip soundness.  From no offset of a buffer does the stride skip go
\* past an offset at which an occurrence of the boundary begins, be it whole
\* in the buffer or cut by its end; and every feed() call leaves the parser
\* (but for the scratch content of the lookbehind buffer), the bytes handed to
\* the handlers and the count of consumed bytes that the scan without the skip
\* leaves.
C18_SkipSoundness ==
    Configured =>
        /\ \A n \in 1..(Len(input) - pos) : \A i \in 0..(n - 1) :
            LET buf == SubSeq(input, pos + 1, pos + n)
            IN  \A k \in i..(skip(parser, buf, i) - 1) : ~BoundaryBeginsAt(parser, buf, k)
        /\ call.op = "feed" =>
            \E junk \in JunkBytes :
                LET slow == feed(WithoutSkip(call.pre), CallBuffer, junk)
                IN  /\ Settled(parser) = Settled([slow.p EXCEPT !.boundaryIndex =
                                                                 call.pre.boundaryIndex])
                    /\ call.ret = slow.ret
                    /\ DeliverAll(<<>>, call.ev) = DeliverAll(<<>>, slow.ev)

\* A feed() call of five bytes began at the first byte of a body, skipped a
\* stride that holds the first four bytes of the boundary, and handed the five
\* bytes over in one slice.
C18_Witness ==
    /\ call.op = "feed" /\ call.len = 5
    /\ call.pre.state = "PART_DATA_START" /\ call.pre.index = 0
    /\ skip(call.pre, CallBuffer, 0) = 5
    /\ SubSeq(CallBuffer, 1, 4) = SubSeq(parser.boundary, 1, 4)
    /\ call.ev = <<Event("onPartData", "input", 0, 5, CallBuffer, TRUE)>>

\* C19: part separator.  When, in PART_DATA, the boundary and then CR LF
\* have been consumed, PART_BOUNDARY is clear, index is 0, the parser is in
\* HEADER_FIELD_START, and the handlers have seen the body of the part (none
\* of the delimiter bytes), onPartEnd and, next to it, onPartBegin.
C19_PartSeparator ==
    (WellFormed(msg) /\ Configured /\ Len(msg.parts) = 2) =>
        LET first == ExpectedPart(msg.parts[1]) \o <<Seen("onPartBegin", <<>>)>>
        IN  /\ pos = PartStart(msg, 2) =>
                /\ parser.state = "HEADER_FIELD_START"
                /\ parser.index = 0
                /\ ~HasFlag(parser.flags, PART_BOUNDARY)
                /\ parser.partDataMark = UNMARKED
                /\ trace = first
            /\ pos >= PartStart(msg, 2) =>
                /\ Len(trace) >= Len(first)
                /\ SubSeq(trace, 1, Len(first)) = first
            /\ pos < PartStart(msg, 2) =>
                \A k \in 1..Len(trace) : trace[k].cb # "onPartEnd"
            /\ \A k \in 1..Len(call.ev) :
                (call.ev[k].cb = "onPartEnd" /\ ~succeeded(parser)) =>
                    k < Len(call.ev) /\ call.ev[k + 1].cb = "onPartBegin"

\* The LF of a separator was fed alone, after a body that holds the boundary
\* followed by a hyphen (a rejected candidate that left LAST_BOUNDARY set).
C19_Witness ==
    /\ WellFormed(msg) /\ Len(msg.parts) = 2
    /\ Contains(msg.parts[1].data, Boundary(msg.tok) \o <<HYPHEN>>)
    /\ pos = PartStart(msg, 2)
    /\ call.op = "feed" /\ call.len = 1
    /\ call.pre.index = call.pre.boundarySize + 1
    /\ HasFlag(call.pre.flags, LAST_BOUNDARY)
    /\ parser.state = "HEADER_FIELD_START"

\* C20 as stated: a missing colon is malformed input.  Once the CR of a header
\* line that has name bytes and no colon has been consumed, the parser is in
\* ERROR; the line was not taken as the end of the headers, and no part data
\* has been delivered.
C20_MissingColon ==
    (Configured /\ msg.openErr = 0) =>
        \A k \in 1..Len(msg.parts) : \A j \in 1..Len(msg.parts[k].headers) :
            LET h == msg.parts[k].headers[j]
            IN  (~h.colon /\ h.name # <<>> /\ pos > LineCR(msg, k, j)) =>
                    /\ hasError(parser)
                    /\ \A t \in 1..Len(trace) :
                        trace[t].cb \notin {"onHeadersEnd", "onPartData"}

\* C14: setBoundary(key, value).  A value without "multipart/" gives a
\* non-zero result and leaves every member of the parser as it was; a value
\* with "multipart/" and "boundary=" gives 0 and the parser setBoundary(token)
\* leaves (START), the token being the rest of the value after "boundary=".
C14_SetBoundaryKeyValue ==
    call.op = "setBoundaryKeyValue" =>
        /\ ~call.thrown
        /\ ~Contains(value, MultipartSlash) =>
            call.ret # 0 /\ parser = call.pre
        /\ (Contains(value, MultipartSlash) /\ Contains(value, BoundaryEquals)) =>
            \E k \in 0..(Len(value) - Len(BoundaryEquals)) :
                LET token == SubSeq(value, k + Len(BoundaryEquals) + 1, Len(value))
                IN  /\ SubSeq(value, k + 1, k + Len(BoundaryEquals)) = BoundaryEquals
                    /\ ~Contains(SubSeq(value, 1, k + Len(BoundaryEquals) - 1), BoundaryEquals)
                    /\ call.ret = 0
                    /\ parser.state = "START"
                    /\ parser.boundary = <<CR, LF, HYPHEN, HYPHEN>> \o token
                    /\ parser = setBoundary(call.pre, token)

\* setBoundary(key, value) was called in the middle of a body with a value
\* that names another token, q, and configured the parser with it.
C14_Witness ==
    /\ call.op = "setBoundaryKeyValue"
    /\ call.pre.state = "PART_DATA" /\ call.pre.index > 0
    /\ call.ret = 0
    /\ parser.state = "START"
    /\ parser.boundary = <<CR, LF, HYPHEN, HYPHEN, 113>>

\* C15 as stated: getFileInfos.  For form-data; name="N"; filename="F" it
\* returns 0 with itemName = N, itemFilename = F, itemIsFile = true; for
\* form-data; name="N" it returns normally, with a non-zero result,
\* itemName = N, and itemFilename and itemIsFile as they were.
C15_GetFileInfos ==
    call.op = "getFileInfos" =>
        \A N \in Names :
            /\ \A F \in Names :
                value = WithFile(N, F) =>
                    /\ ~call.thrown
                    /\ call.ret = 0
                    /\ item = [name |-> N, filename |-> F, isFile |-> TRUE]
            /\ value = NoFile(N) =>
                /\ ~call.thrown
                /\ call.ret # 0
                /\ item = [call.arg EXCEPT !.name = N]

\* C15 for the values with a filename parameter.
C15_FileField ==
    call.op = "getFileInfos" =>
        \A N \in Names : \A F \in Names :
            value = WithFile(N, F) =>
                /\ ~call.thrown
                /\ call.ret = 0
                /\ item = [name |-> N, filename |-> F, isFile |-> TRUE]

\* ------------------------------------------------------------ match index and marks
\* The bytes of the boundary candidate being matched are the last index bytes
\* consumed, and the lookbehind buffer holds them.
CandidateHeld(p) ==
    /\ (1..p.index) \subseteq p.written
    /\ p.index <= pos
    /\ SubSeq(p.lookbehind, 1, p.index) = SubSeq(input, pos - p.index + 1, pos)

NoColonlessLine(m) ==
    \A k \in 1..Len(m.parts) : \A j \in 1..Len(m.parts[k].headers) :
        m.parts[k].headers[j].colon

\* C21 as stated: match index range.  In PART_DATA the index lies in
\* 0..boundarySize+3; it is 0 when PART_DATA is entered from the header
\* section, however that section ended; a non-zero index is the number of
\* bytes of the current candidate held in the lookbehind buffer.
C21_MatchIndex ==
    Configured =>
        /\ parser.state = "PART_DATA_START" => parser.index = 0
        /\ parser.state = "PART_DATA" =>
            /\ parser.index \in 0..(parser.boundarySize + 3)
            /\ parser.index > 0 => CandidateHeld(parser)

\* C21 on the bodies in which every header line has its colon.
C21_AfterHeaderLines ==
    (Configured /\ NoColonlessLine(msg)) =>
        /\ parser.state = "PART_DATA_START" => parser.index = 0
        /\ parser.state = "PART_DATA" =>
            /\ parser.index \in 0..(parser.boundarySize + 3)
            /\ parser.index > 0 => CandidateHeld(parser)

\* ------------------------------------------------------------ header lines
\* Bodies of one part whose header lines vary: names of letters and hyphens,
\* names with a byte that is neither (LF, SPACE, '1', and the bytes next to the
\* two letter ranges: '@' '[' '`' '{', and a byte above 127), a line that
\* begins with the colon, and values with none to three leading spaces.
GoodNames == {<<97>>, <<65, 45, 98>>, <<90, 122>>, <<HYPHEN>>}
BadNameBytes == {LF, SPACE, 49, 64, 91, 96, 123, 200}
Raws == {<<>>, <<118>>, <<SPACE, 118>>, <<SPACE, SPACE, 118>>, <<SPACE, SPACE>>,
         <<SPACE, SPACE, SPACE, 118, SPACE, 119>>, <<118, SPACE>>}
GoodLines == {Line(n, TRUE, raw) : n \in GoodNames, raw \in Raws}
BadLines ==
    {Line(pre \o <<b>> \o suf, TRUE, <<118>>) :
        pre \in {<<>>, <<97>>, <<65, 45>>}, b \in BadNameBytes, suf \in {<<>>, <<97>>}}
    \cup {Line(<<>>, TRUE, <<118>>)}

HeaderMessages(tok) ==
    {Message(tok, 0, <<Part(<<l>>, <<120>>)>>, <<>>) : l \in GoodLines \cup BadLines}
    \cup {Message(tok, 0, <<Part(<<Line(<<97>>, TRUE, <<SPACE, 118>>), l>>, <<120>>)>>, <<>>) :
            l \in BadLines \cup {Line(<<98>>, TRUE, <<SPACE, SPACE, 119>>)}}

HeaderInit ==
    \E tok \in Tokens :
        /\ parser = setBoundary(reset([state |-> "ERROR"]), tok)
        /\ msg \in HeaderMessages(tok)
        /\ input = Bytes(msg)
        /\ pos = 0
        /\ trace = <<>>
        /\ call = NoCall(parser)
        /\ value = <<>>
        /\ item = NoItem

HeaderSpec == HeaderInit /\ [][Next]_vars

\* A byte of a header name, by the grammar: a letter or a hyphen.
IsNameByte(c) == c = HYPHEN \/ c \in 65..90 \/ c \in 97..122
GoodName(n) == n # <<>> /\ \A k \in 1..Len(n) : IsNameByte(n[k])

\* Offset of the first byte of line j of part k.
LineStart(m, k, j) ==
    PartStart(m, k) + Len(Concat([q \in 1..(j - 1) |-> LineBytes(m.parts[k].headers[q])]))

\* The first line of the first part whose name is not a header name (0: none),
\* and the offset of the byte that shows it: the first byte of the name that
\* is no name byte, or the colon of an empty name.
BadLine(m) ==
    LET hs == m.parts[1].headers
        bad == {j \in 1..Len(hs) : hs[j].colon /\ ~GoodName(hs[j].name)}
    IN  IF bad = {} THEN 0 ELSE CHOOSE j \in bad : \A q \in bad : j <= q
Offending(m) ==
    LET n == m.parts[1].headers[BadLine(m)].name
        at == {k \in 1..Len(n) : ~IsNameByte(n[k])}
    IN  LineStart(m, 1, BadLine(m))
        + (IF at = {} THEN 0 ELSE (CHOOSE k \in at : \A q \in at : k <= q) - 1)

\* Offset in the input of the first byte of the buffer of the last feed() call.
CallStart == pos - call.ret

\* C22: header-name validation.  In HEADER_FIELD a byte that is no letter,
\* HYPHEN, COLON or CR, and a COLON that begins the line, move the parser to
\* ERROR; feed() returns the offset of that byte; the name bytes pending before
\* it are not handed over, and no handler is invoked for that byte or a later
\* one.
C22_HeaderNameValidation ==
    (Configured /\ BadLine(msg) > 0) =>
        LET off == Offending(msg)
            line == LineStart(msg, 1, BadLine(msg))
            empty == msg.parts[1].headers[BadLine(msg)].name = <<>>
        IN  /\ pos <= off
            /\ (call.op = "feed" /\ ~stopped(call.pre) /\ CallStart + call.len > off) =>
                /\ hasError(parser)
                /\ getErrorMessage(parser) = (IF empty THEN ErrFirstChar ELSE ErrHeaderName)
                /\ call.ret = off - CallStart
                /\ call.stopAt = off - CallStart
                /\ line <= CallStart => call.ev = <<>>
                /\ \A k \in 1..Len(call.ev) :
                    call.ev[k].cb \in DataCallbacks => call.ev[k].end < line - CallStart
                /\ \A k \in 1..Len(trace) : trace[k].cb # "onHeadersEnd"

\* feed() met the offending byte of a name with the two name bytes before it
\* pending in the same buffer.
C22_Witness ==
    /\ BadLine(msg) > 0
    /\ call.op = "feed" /\ call.len > call.ret
    /\ hasError(parser)
    /\ getErrorMessage(parser) = ErrHeaderName
    /\ LineStart(msg, 1, BadLine(msg)) >= CallStart
    /\ Offending(msg) = LineStart(msg, 1, BadLine(msg)) + 2
    /\ pos = Offending(msg)

\* The value of a header line once every leading space is dropped.
ValueAfterSpaces(h) == SubSeq(h.raw, LeadingSpaces(h.raw) + 1, Len(h.raw))

\* The header lines of the first part that come before its first line with a
\* malformed name.
GoodUpTo(m) == IF BadLine(m) = 0 THEN Len(m.parts[1].headers) ELSE BadLine(m) - 1

\* C23 as stated: HEADER_VALUE_START skips a single leading SPACE.  At most
\* one SPACE after the COLON is dropped; the value begins at the next byte, so
\* a second leading space is part of the delivered value.
C23_Original ==
    Configured =>
        LET got == HeadersOf(trace, <<>>)
        IN  \A j \in 1..GoodUpTo(msg) :
                pos > LineCR(msg, 1, j) =>
                    /\ Len(got) >= 1 /\ Len(got[1]) >= j
                    /\ got[1][j].value = ValueOf(msg.parts[1].headers[j])

\* C23 amended: HEADER_VALUE_START skips every leading SPACE.  The value
\* mark is placed at the first byte after the COLON that is no SPACE; the
\* delivered value is what follows the leading spaces, and spaces inside or at
\* the end of the value are part of it.
C23_LeadingSpaces ==
    Configured =>
        LET got == HeadersOf(trace, <<>>)
        IN  \A j \in 1..GoodUpTo(msg) :
                LET h == msg.parts[1].headers[j]
                IN  IF pos > LineCR(msg, 1, j)
                    THEN /\ Len(got) >= 1 /\ Len(got[1]) >= j
                         /\ got[1][j] = [name |-> h.name, value |-> ValueAfterSpaces(h),
                                         values |-> 1, ends |-> 1]
                    ELSE (Len(got) >= 1 /\ Len(got[1]) >= j) =>
                            IsPrefix(got[1][j].value, ValueAfterSpaces(h))

\* A line with three leading spaces and a space inside its value: the first
\* space came in an earlier feed() call, which ended in HEADER_VALUE_START; the
\* next call took the other two spaces and the value, and handed the value
\* over without them.
C23_Witness ==
    /\ msg.parts[1].headers[1].raw = <<SPACE, SPACE, SPACE, 118, SPACE, 119>>
    /\ call.op = "feed" /\ call.len = 5
    /\ call.pre.state = "HEADER_VALUE_START"
    /\ parser.state = "HEADER_VALUE"
    /\ pos = LineCR(msg, 1, 1)
    /\ HeadersOf(trace, <<>>)[1][1].value = <<118, SPACE, 119>>

\* ------------------------------------------------------------ brackets and END
IsBracket(e) == e.cb \in {"onPartBegin", "onPartEnd"}
Brackets(tr) == SelectSeq(tr, IsBracket)

\* onPartBegin and onPartEnd alternate, onPartBegin first; onEnd comes once
\* at most, right after an onPartEnd, and nothing comes after it.
Bracketed(tr) ==
    /\ \A k \in 1..Len(Brackets(tr)) :
        Brackets(tr)[k].cb = (IF k % 2 = 1 THEN "onPartBegin" ELSE "onPartEnd")
    /\ \A k \in 1..Len(tr) :
        tr[k].cb = "onEnd" => (k = Len(tr) /\ k > 1 /\ tr[k - 1].cb = "onPartEnd")

\* C24 as stated: event bracketing, for every sequence of feed() calls on a
\* configured parser, the input valid or malformed.
C24_EventBracketing == Configured => Bracketed(trace)

\* C24 on the bodies in which every header line has its colon.
C24_AfterHeaderLines == (Configured /\ NoColonlessLine(msg)) => Bracketed(trace)

\* ------------------------------------------------------------ offsets
\* The marks the parser carries into a feed() call that does something.
CarriedMarks(p) == {p.headerFieldMark, p.headerValueMark, p.partDataMark}

\* C25: callback offsets.  Every data callback is handed the input buffer of
\* the feed() call that is executing with 0 <= start <= end <= its length, or
\* the lookbehind buffer with start = 0 and end <= boundarySize + 8; a mark
\* carried into a feed() call that processes a byte is unmarked or 0.
C25_CallbackOffsets ==
    (call.op = "feed" /\ Configured) =>
        /\ \A k \in 1..Len(call.ev) :
            LET e == call.ev[k]
            IN  e.cb \in DataCallbacks =>
                    \/ e.src = "input" /\ 0 <= e.start /\ e.start <= e.end
                                       /\ e.end <= call.len
                                       /\ e.data = SubSeq(CallBuffer, e.start + 1, e.end)
                    \/ e.src = "lookbehind" /\ e.start = 0
                                            /\ e.end <= call.pre.boundarySize + 8
                                            /\ e.end <= call.pre.lookbehindSize
        /\ (call.len > 0 /\ ~stopped(call.pre)) => CarriedMarks(call.pre) \subseteq {UNMARKED, 0}

\* A feed() call began with the part-data mark carried at 0, handed the input
\* buffer over from offset 0, then the lookbehind buffer after a false lead,
\* and at its end the input buffer again from the offset of the byte that
\* broke the lead.
C25_Witness ==
    /\ call.op = "feed"
    /\ call.pre.partDataMark = 0
    /\ Len(call.ev) = 3
    /\ call.ev[1].src = "input" /\ call.ev[1].start = 0 /\ call.ev[1].end > 0
    /\ call.ev[2].src = "lookbehind" /\ call.ev[2].end > 1
    /\ call.ev[3].src = "input" /\ call.ev[3].start > 0 /\ call.ev[3].end = call.len

\* Offsets of the first byte of the data section of part k and of the first
\* byte after it.
DataStart(m, k) == PartStart(m, k) + Len(PartBytes(m.parts[k])) - Len(m.parts[k].data)
DataEnd(m, k) == PartStart(m, k) + Len(PartBytes(m.parts[k]))

\* The bytes consumed end with the terminal delimiter, and it began in the
\* data section of a part (or right at its end).
EndsWithTerminator ==
    LET n == Len(Terminator(msg.tok))
    IN  /\ pos >= n
        /\ SubSeq(input, pos - n + 1, pos) = Terminator(msg.tok)
        /\ \E k \in 1..Len(msg.parts) :
            DataStart(msg, k) <= pos - n /\ pos - n <= DataEnd(msg, k)

\* C26 as stated: no spurious success.  The parser is in END (and onEnd has
\* been emitted) only if the bytes consumed so far end with CR LF "--" token
\* "--" in a part's data section; no other input, a malformed header section
\* included, takes the parser to END.
C26_NoSpuriousSuccess ==
    Configured =>
        /\ succeeded(parser) => EndsWithTerminator
        /\ (\E k \in 1..Len(trace) : trace[k].cb = "onEnd") => EndsWithTerminator

\* C26 on the bodies in which every header line has its colon.
C26_AfterHeaderLines ==
    (Configured /\ NoColonlessLine(msg)) =>
        /\ succeeded(parser) => EndsWithTerminator
        /\ (\E k \in 1..Len(trace) : trace[k].cb = "onEnd") => EndsWithTerminator

\* ------------------------------------------------------------ termination
\* How many executions of the loop body of the last feed() call began at
\* offset k.
Visits(k) == Cardinality({j \in 1..Len(call.visited) : call.visited[j] = k})

\* C27: feed() terminates.  Every call returns; the loop index goes back only
\* to the byte that broke a boundary candidate, which is then processed with
\* index 0 and cannot take the loop back again, so the loop body runs twice at
\* most for each offset of the buffer, offset 0 included.
C27_FeedTerminates ==
    call.op = "feed" =>
        /\ call.done
        /\ Len(call.visited) <= 2 * call.len
        /\ \A k \in 0..(call.len - 1) : Visits(k) <= 2
        /\ \A j \in 1..Len(call.visited) : call.visited[j] \in 0..(call.len - 1)
        /\ \A j \in 1..(Len(call.visited) - 1) :
            /\ call.visited[j] <= call.visited[j + 1]
            /\ call.visited[j] = call.visited[j + 1] =>
                \E k \in 1..Len(call.ev) : call.ev[k].src = "lookbehind"

\* A feed() call began inside a boundary candidate, its first byte broke the
\* candidate, and the loop body ran twice at offset 0 before the call went on
\* to the end of its buffer.
C27_Witness ==
    /\ call.op = "feed" /\ call.len > 1 /\ call.ret = call.len
    /\ call.pre.state = "PART_DATA" /\ call.pre.index > 0
    /\ Len(call.visited) > 2
    /\ call.visited[1] = 0 /\ call.visited[2] = 0
    /\ call.done

\* ------------------------------------------------------------ marks
OpenMarks(p) ==
    {n \in {"headerFieldMark", "headerValueMark", "partDataMark"} : p[n] # UNMARKED}

HeaderStates ==
    {"HEADER_FIELD_START", "HEADER_FIELD", "HEADER_VALUE_START", "HEADER_VALUE",
     "HEADER_VALUE_ALMOST_DONE", "HEADERS_ALMOST_DONE"}

\* A part separator has been confirmed: onPartEnd was followed by onPartBegin.
AfterSeparator == \E k \in 1..Len(trace) : trace[k].cb = "onPartEnd" /\ k < Len(trace)

MarksExclusive(p) ==
    /\ Cardinality(OpenMarks(p)) <= 1
    /\ p.state = "PART_DATA" => (p.partDataMark # UNMARKED <=> p.index = 0)
    /\ p.state = "HEADER_FIELD_START" => OpenMarks(p) = {}
    /\ (p.state \in HeaderStates /\ AfterSeparator) => p.partDataMark = UNMARKED
    /\ p.state = "END" => OpenMarks(p) = {}

\* C28 as stated: mark exclusivity.  Between processed bytes at most one of
\* the three marks is open; in PART_DATA the part-data mark is open exactly
\* when the index is 0; all three are unmarked in HEADER_FIELD_START, the
\* state a confirmed separator leaves, and the part-data mark stays unmarked
\* through the header states that follow; all three are unmarked in END.
C28_MarkExclusivity == Configured => MarksExclusive(parser)

\* C28 on the bodies in which every header line has its colon.
C28_AfterHeaderLines == (Configured /\ NoColonlessLine(msg)) => MarksExclusive(parser)

\* ------------------------------------------------------------ error reason
\* One step of the collaborator writes the reason only by reset() or
\* setBoundary(), or by a feed() that takes the parser into ERROR; a feed() on
\* a parser in ERROR or END leaves state and reason as they are.
ReasonWrittenOnce ==
    /\ parser'.errorReason # parser.errorReason =>
        \/ call'.op \in {"reset", "setBoundary"}
        \/ call'.op = "feed" /\ ~stopped(parser) /\ hasError(parser')
    /\ (stopped(parser) /\ call'.op = "feed") =>
        /\ parser'.state = parser.state
        /\ parser'.errorReason = parser.errorReason

\* C29: error state and error reason agree.  In every reachable state
\* hasError() is true exactly when getErrorMessage() is not "No error."; the
\* reason is written only by the transition into ERROR or by reset() /
\* setBoundary(), and does not change while the parser stays in ERROR or END.
C29_ErrorReason ==
    /\ [](hasError(parser) <=> getErrorMessage(parser) # ErrNone)
    /\ [][ReasonWrittenOnce]_vars

\* feed() was called with bytes on a parser that a malformed opening line had
\* left in ERROR, and state and reason are as they were.
C29_Witness ==
    /\ call.op = "feed" /\ call.len > 0 /\ call.ret = 0
    /\ hasError(call.pre)
    /\ hasError(parser)
    /\ getErrorMessage(parser) = ErrExpectedLF
    /\ getErrorMessage(call.pre) = ErrExpectedLF

====
